---------------------------- MODULE Spec2Model ----------------------------
(***************************************************************************)
(* Last Frame Getter.                                                      *)
(*                                                                         *)
(* Two independent components:                                             *)
(*   - the Frame Extractor, the React component App, which turns the last  *)
(*     frame of a user supplied video into a PNG object URL;               *)
(*   - the Asset Router, the edge worker's fetch handler, which serves     *)
(*     static assets and falls back to /index.html.                        *)
(*                                                                         *)
(* The browser is single threaded: every event handler, the render it      *)
(* causes, the effects of that render and the promise continuations it     *)
(* wakes run to completion before the next event is delivered.  Each       *)
(* action below is therefore one delivered event together with everything  *)
(* that runs because of it.                                                *)
(***************************************************************************)
EXTENDS Integers, Sequences, FiniteSets, TLC

VARIABLES
    \* ---- Frame Extractor: React state and refs of App ----
    videoFile,          \* useState<File | null>
    imageUrl,           \* useState<string | null>
    error,              \* useState<string | null>
    isProcessing,       \* useState(false)
    isDragging,         \* useState(false)
    lastProcessedKey,   \* useRef<string | null>
    \* ---- Frame Extractor: the browser around the component ----
    inflight,           \* calls of handleExtract awaiting extractLastFrame
    nextId,             \* number of the next call of handleExtract
    liveUrls,           \* object URLs created and not revoked
    \* ---- Frame Extractor: history of the supplies ----
    runLen,             \* consecutive supplies of the held identity (2 = two or more)
    runStarts,          \* extractions started during that run of supplies
    revokedImage,       \* what the last clear found in imageUrl, until the next supply
    \* ---- Asset Router: one invocation of fetch ----
    pc,                 \* where the invocation of fetch stands
    request,            \* the parameter request
    response,           \* the local variable response
    calls,              \* the calls made to env.ASSETS.fetch, in order
    returned            \* what the invocation returned

extractorVars == <<videoFile, imageUrl, error, isProcessing, isDragging,
                   lastProcessedKey, inflight, nextId, liveUrls, runLen, runStarts,
                   revokedImage>>
routerVars == <<pc, request, response, calls, returned>>
vars == <<extractorVars, routerVars>>

\* null, and a non-null value x, of a nullable variable
None == <<>>
Some(x) == <<x>>
Val(o) == o[1]

Max(a, b) == IF a >= b THEN a ELSE b

-----------------------------------------------------------------------------
(***************************************************************************)
(* Bounds                                                                  *)
(***************************************************************************)
\* calls of handleExtract in one behaviour
MaxExtractions == 2

-----------------------------------------------------------------------------
(***************************************************************************)
(* Files.  A File carries name, size, lastModified and type; what the      *)
(* media element will report for its contents once the metadata is loaded  *)
(* (videoWidth, videoHeight, duration) is recorded with it.  Times are in   *)
(* units of 1e-6 s.  finite = FALSE is a duration of Infinity, as reported *)
(* for a stream without a duration header.                                 *)
(***************************************************************************)
File(n, s, lm, t, w, h, d, fin) ==
    [name |-> n, size |-> s, lastModified |-> lm, type |-> t,
     videoWidth |-> w, videoHeight |-> h, duration |-> d, finite |-> fin]

FileA == File("a.mp4", 10, 1, "video/mp4", 4, 2, 5, TRUE)
FileB == File("b.webm", 10, 1, "video/webm", 2, 2, 3, TRUE)
\* same name as FileA, another size; reports no width
FileZ == File("a.mp4", 11, 1, "video/mp4", 0, 2, 5, TRUE)
\* valid dimensions, zero duration
FileD == File("d.webm", 10, 1, "video/webm", 2, 4, 0, TRUE)
\* valid dimensions, duration Infinity
FileI == File("i.webm", 10, 2, "video/webm", 2, 2, 0, FALSE)
\* not a video
FileP == File("p.png", 10, 1, "image/png", 0, 0, 0, TRUE)

Files == {FileA, FileB, FileZ, FileD, FileI, FileP}

\* /video\/(mp4|webm)/.test(file.type), on the types of Files
AcceptedType(t) == t \in {"video/mp4", "video/webm"}

\* `${videoFile.name}-${videoFile.size}-${videoFile.lastModified}`.  size and
\* lastModified are printed as decimal numbers, so the string can be read back
\* from its right end: two files have the same string exactly when they have
\* the same name, size and lastModified.
Key(f) == <<f.name, f.size, f.lastModified>>

-----------------------------------------------------------------------------
(***************************************************************************)
(* Messages                                                                *)
(***************************************************************************)
\* The messages of the source are Japanese sentences; each is named here by an
\* English rendering, one distinct string per message of the source.
DropMessage == "mp4 or webm required"
DimensionMessage == "cannot get video dimensions"
CanvasMessage == "cannot get canvas context"
SeekMessage == "Failed to seek video."
EncodeMessage == "cannot generate image"
TypeErrorMessage == "TypeError: non-finite currentTime"
UnknownMessage == "unknown error"

\* a thrown value: an Error with a message, or something else
Thrown(isErr, msg) == [isError |-> isErr, message |-> msg]

\* e instanceof Error ? e.message : '...'
MessageOf(e) == IF e.isError THEN e.message ELSE UnknownMessage

\* const epsilon = 0.000001, in units of 1e-6
Epsilon == 1

\* TargetTime without the epsilon: the seek goes to the end of the stream
TargetTimeAtEnd(f) == Max(0, f.duration)

\* Math.max(0, video.duration - epsilon)
TargetTime(f) == Max(0, f.duration - Epsilon)

\* object URLs: of the input file of call id, and of the blob call id produced
FileUrl(id) == [kind |-> "file", id |-> id]
BlobUrl(id, blob) == [kind |-> "blob", id |-> id, blob |-> blob]

InFlightIds == DOMAIN inflight

-----------------------------------------------------------------------------
(***************************************************************************)
(* Frame Extractor                                                         *)
(***************************************************************************)
ExtractorInit ==
    /\ videoFile = None
    /\ imageUrl = None
    /\ error = None
    /\ isProcessing = FALSE
    /\ isDragging = FALSE
    /\ lastProcessedKey = None
    /\ inflight = << >>
    /\ nextId = 1
    /\ liveUrls = {}
    /\ runLen = 0
    /\ runStarts = 0
    /\ revokedImage = None

\* handleExtract after the await, on success: createObjectURL(blob),
\* setImageUrl(previewUrl), finally setIsProcessing(false).  urls are the
\* object URLs extractLastFrame left live.
ExtractResolved(id, blob, urls) ==
    /\ imageUrl' = Some(BlobUrl(id, blob))
    /\ liveUrls' = urls \cup {BlobUrl(id, blob)}
    /\ isProcessing' = FALSE
    /\ inflight' = [i \in InFlightIds \ {id} |-> inflight[i]]
    /\ UNCHANGED <<error, nextId>>

\* ExtractRejected with a catch that swallows the error
ExtractRejectedSilent(id, e, urls) ==
    /\ liveUrls' = urls
    /\ isProcessing' = FALSE
    /\ inflight' = [i \in InFlightIds \ {id} |-> inflight[i]]
    /\ UNCHANGED <<error, imageUrl, nextId>>

\* ExtractRejected without the finally: the flag is reset on success only
ExtractRejectedNoFinally(id, e, urls) ==
    /\ error' = Some(MessageOf(e))
    /\ liveUrls' = urls
    /\ inflight' = [i \in InFlightIds \ {id} |-> inflight[i]]
    /\ UNCHANGED <<isProcessing, imageUrl, nextId>>

\* handleExtract after the await, on a throw: catch setError(message),
\* finally setIsProcessing(false)
ExtractRejected(id, e, urls) ==
    /\ error' = Some(MessageOf(e))
    /\ liveUrls' = urls
    /\ isProcessing' = FALSE
    /\ inflight' = [i \in InFlightIds \ {id} |-> inflight[i]]
    /\ UNCHANGED <<imageUrl, nextId>>

\* extractLastFrame up to its first await: createObjectURL(file), a video
\* element with that src, await loadedmetadata.  urls are the object URLs that
\* are live when it is called.
extractLastFrame(f, urls) ==
    /\ nextId <= MaxExtractions
    /\ liveUrls' = urls \cup {FileUrl(nextId)}
    /\ inflight' = (nextId :> [file |-> f, url |-> FileUrl(nextId),
                               at |-> "loadedmetadata",
                               width |-> 0, height |-> 0, target |-> 0])
                   @@ inflight
    /\ nextId' = nextId + 1

\* handleExtract up to the await, called by the effect of the render that
\* holds fo as videoFile
handleExtract(fo, urls) ==
    IF fo = None
    THEN liveUrls' = urls /\ UNCHANGED <<isProcessing, inflight, nextId>>
    ELSE /\ error' = None
         /\ isProcessing' = TRUE
         /\ imageUrl' = None
         /\ extractLastFrame(Val(fo), urls)

\* useEffect that returns for a null videoFile without resetting the ref
useEffectKeepsKey(fo, urls) ==
    IF fo = None
    THEN /\ liveUrls' = urls
         /\ UNCHANGED <<lastProcessedKey, isProcessing, inflight, nextId>>
    ELSE IF lastProcessedKey = Some(Key(Val(fo)))
    THEN /\ liveUrls' = urls
         /\ UNCHANGED <<lastProcessedKey, isProcessing, inflight, nextId>>
    ELSE /\ lastProcessedKey' = Some(Key(Val(fo)))
         /\ handleExtract(fo, urls)

\* useEffect without the comparison with lastProcessedKey
useEffectNoGuard(fo, urls) ==
    IF fo = None
    THEN /\ lastProcessedKey' = None
         /\ liveUrls' = urls
         /\ UNCHANGED <<isProcessing, inflight, nextId>>
    ELSE /\ lastProcessedKey' = Some(Key(Val(fo)))
         /\ handleExtract(fo, urls)

\* the effect on [videoFile, handleExtract], run after the render that holds
\* fo as videoFile.  React runs it when videoFile changed: every File a handler
\* sets is a new object, and from null to null the body would change nothing
\* (lastProcessedKey is null whenever videoFile is), so the body is applied
\* after every handler that sets videoFile.
useEffect(fo, urls) ==
    IF fo = None
    THEN /\ lastProcessedKey' = None
         /\ liveUrls' = urls
         /\ UNCHANGED <<isProcessing, inflight, nextId>>
    ELSE IF lastProcessedKey = Some(Key(Val(fo)))
    THEN /\ liveUrls' = urls
         /\ UNCHANGED <<lastProcessedKey, isProcessing, inflight, nextId>>
    ELSE /\ lastProcessedKey' = Some(Key(Val(fo)))
         /\ handleExtract(fo, urls)

\* history: the run of consecutive supplies of one identity, and the
\* extractions started during it
RecordSupply(fo) ==
    IF fo = None
    THEN runLen' = 0 /\ runStarts' = 0
    ELSE IF videoFile # None /\ Key(Val(videoFile)) = Key(Val(fo))
    THEN runLen' = 2 /\ runStarts' = runStarts + (nextId' - nextId)
    ELSE runLen' = 1 /\ runStarts' = nextId' - nextId

\* history: the image a click of clear found held, forgotten at the next supply
RecordClear(found) == revokedImage' = found

\* onChange of the file input; fo is e.target.files?.[0] ?? null
handleFileChange(fo) ==
    /\ error' = None
    /\ imageUrl' = None
    /\ videoFile' = fo
    /\ useEffect(fo, liveUrls)
    /\ RecordSupply(fo)
    /\ RecordClear(None)
    /\ UNCHANGED <<isDragging, routerVars>>

\* onDrop of the drop zone; fo is e.dataTransfer.files?.[0]
handleDrop(fo) ==
    /\ isDragging' = FALSE
    /\ imageUrl' = None
    /\ IF fo # None /\ AcceptedType(Val(fo).type)
       THEN /\ error' = None
            /\ videoFile' = fo
            /\ useEffect(fo, liveUrls)
            /\ RecordSupply(fo)
            /\ RecordClear(None)
       ELSE /\ error' = Some(DropMessage)
            /\ UNCHANGED <<videoFile, lastProcessedKey, isProcessing, inflight,
                           nextId, liveUrls, runLen, runStarts, revokedImage>>
    /\ UNCHANGED routerVars

handleDragOver ==
    /\ isDragging' = TRUE
    /\ UNCHANGED <<videoFile, imageUrl, error, isProcessing, lastProcessedKey,
                   inflight, nextId, liveUrls, runLen, runStarts, revokedImage,
                   routerVars>>

handleDragLeave ==
    /\ isDragging' = FALSE
    /\ UNCHANGED <<videoFile, imageUrl, error, isProcessing, lastProcessedKey,
                   inflight, nextId, liveUrls, runLen, runStarts, revokedImage,
                   routerVars>>

\* handleClear without URL.revokeObjectURL(imageUrl)
handleClearNoRevoke ==
    /\ videoFile # None \/ imageUrl # None
    /\ videoFile' = None
    /\ imageUrl' = None
    /\ error' = None
    /\ useEffect(None, liveUrls)
    /\ RecordSupply(None)
    /\ RecordClear(imageUrl)
    /\ UNCHANGED <<isDragging, routerVars>>

\* onClick of the clear button, which is disabled when !videoFile && !imageUrl:
\* setVideoFile(null), revokeObjectURL(imageUrl) if an image is held,
\* setImageUrl(null), setError(null); then the effect.  (videoRef is the hidden
\* video element, which no extraction uses.)
handleClear ==
    /\ videoFile # None \/ imageUrl # None
    /\ videoFile' = None
    /\ imageUrl' = None
    /\ error' = None
    /\ useEffect(None, IF imageUrl # None THEN liveUrls \ {Val(imageUrl)}
                                          ELSE liveUrls)
    /\ RecordSupply(None)
    /\ RecordClear(imageUrl)
    /\ UNCHANGED <<isDragging, routerVars>>

\* seek(video, targetTime) once the listeners are added: the assignment to
\* currentTime throws a TypeError for a time that is not finite and the promise
\* is rejected with it; otherwise the call awaits seeked or error
seek(id, f) ==
    IF f.finite
    THEN /\ inflight' = [inflight EXCEPT ![id] =
                            [@ EXCEPT !.at = "seek",
                                      !.width = f.videoWidth,
                                      !.height = f.videoHeight,
                                      !.target = TargetTime(f)]]
         /\ UNCHANGED <<imageUrl, error, isProcessing, nextId, liveUrls>>
    ELSE ExtractRejected(id, Thrown(TRUE, TypeErrorMessage), liveUrls)

\* OnLoadedMetadata that throws only when width and height are both zero
OnLoadedMetadataBothZero(id, ctx) ==
    /\ id \in InFlightIds
    /\ inflight[id].at = "loadedmetadata"
    /\ AcceptedType(inflight[id].file.type)
    /\ LET f == inflight[id].file
           url == inflight[id].url
       IN  IF f.videoWidth = 0 /\ f.videoHeight = 0
           THEN ExtractRejected(id, Thrown(TRUE, DimensionMessage), liveUrls \ {url})
           ELSE IF ~ctx
           THEN ExtractRejected(id, Thrown(TRUE, CanvasMessage), liveUrls \ {url})
           ELSE seek(id, f)
    /\ UNCHANGED <<videoFile, isDragging, lastProcessedKey, runLen, runStarts,
                   revokedImage, routerVars>>

\* loadedmetadata is delivered to the video element of call id: the element
\* delivers it only for contents it can decode, of Files the video ones.
\* ctx is whether canvas.getContext('2d') returns a context.
OnLoadedMetadata(id, ctx) ==
    /\ id \in InFlightIds
    /\ inflight[id].at = "loadedmetadata"
    /\ AcceptedType(inflight[id].file.type)
    /\ LET f == inflight[id].file
           url == inflight[id].url
       IN  IF f.videoWidth = 0 \/ f.videoHeight = 0
           THEN ExtractRejected(id, Thrown(TRUE, DimensionMessage), liveUrls \ {url})
           ELSE IF ~ctx
           THEN ExtractRejected(id, Thrown(TRUE, CanvasMessage), liveUrls \ {url})
           ELSE seek(id, f)
    /\ UNCHANGED <<videoFile, isDragging, lastProcessedKey, runLen, runStarts,
                   revokedImage, routerVars>>

\* the blob canvas.toBlob encodes after drawImage(video, 0, 0, width, height)
\* drew the frame the element shows at its current position
Frame(x) ==
    [from |-> x.file, width |-> x.width, height |-> x.height, time |-> x.target]

\* seeked is delivered to the video element of call id: drawImage, then
\* canvas.toBlob is called
OnSeeked(id) ==
    /\ id \in InFlightIds
    /\ inflight[id].at = "seek"
    /\ inflight' = [inflight EXCEPT ![id] = [@ EXCEPT !.at = "toBlob"]]
    /\ UNCHANGED <<videoFile, imageUrl, error, isProcessing, isDragging,
                   lastProcessedKey, nextId, liveUrls, runLen, runStarts,
                   revokedImage, routerVars>>

\* error is delivered to the video element of call id while seek awaits
OnError(id) ==
    /\ id \in InFlightIds
    /\ inflight[id].at = "seek"
    /\ ExtractRejected(id, Thrown(TRUE, SeekMessage), liveUrls)
    /\ UNCHANGED <<videoFile, isDragging, lastProcessedKey, runLen, runStarts,
                   revokedImage, routerVars>>

\* the callback of canvas.toBlob of call id runs; b is whether it is given a blob
OnToBlob(id, b) ==
    /\ id \in InFlightIds
    /\ inflight[id].at = "toBlob"
    /\ IF b
       THEN ExtractResolved(id, Frame(inflight[id]), liveUrls \ {inflight[id].url})
       ELSE ExtractRejected(id, Thrown(TRUE, EncodeMessage), liveUrls)
    /\ UNCHANGED <<videoFile, isDragging, lastProcessedKey, runLen, runStarts,
                   revokedImage, routerVars>>

Supplied == {None} \cup {Some(f) : f \in Files}
\* the numbers the calls of handleExtract can have
Ids == 1..MaxExtractions

RouterIdle ==
    /\ pc = "idle"
    /\ request = None
    /\ response = None
    /\ calls = << >>
    /\ returned = None

Init == ExtractorInit /\ RouterIdle

Next ==
    \/ \E fo \in Supplied : handleFileChange(fo)
    \/ \E fo \in Supplied : handleDrop(fo)
    \/ handleDragOver
    \/ handleDragLeave
    \/ handleClear
    \/ \E id \in Ids, ctx \in BOOLEAN : OnLoadedMetadata(id, ctx)
    \/ \E id \in Ids : OnSeeked(id)
    \/ \E id \in Ids : OnError(id)
    \/ \E id \in Ids, b \in BOOLEAN : OnToBlob(id, b)

Spec == Init /\ [][Next]_vars

\* the milestone call id awaits is delivered: loadedmetadata; seeked or error;
\* the callback of toBlob
MetadataMilestone(id) == \E ctx \in BOOLEAN : OnLoadedMetadata(id, ctx)
SeekMilestone(id) == OnSeeked(id) \/ OnError(id)
EncodeMilestone(id) == \E b \in BOOLEAN : OnToBlob(id, b)

\* the browser delivers every milestone a call awaits, where the media element
\* has one to deliver; the code itself has no timeout and no cancellation
FairSpec ==
    /\ Init /\ [][Next]_vars
    /\ \A id \in Ids : /\ WF_vars(MetadataMilestone(id))
                       /\ WF_vars(SeekMilestone(id))
                       /\ WF_vars(EncodeMilestone(id))

-----------------------------------------------------------------------------
(***************************************************************************)
(* Frame Extractor: properties                                             *)
(***************************************************************************)
\* the output image object URLs that are live
LiveImages == {u \in liveUrls : u.kind = "blob"}

\* in this step call id settles / settles by producing its image / by throwing
Settles(id) == id \in DOMAIN inflight /\ id \notin DOMAIN inflight'
Succeeds(id) == Settles(id) /\ imageUrl' # None /\ Val(imageUrl').id = id
Fails(id) == Settles(id) /\ ~Succeeds(id)

\* in this step a call of handleExtract starts
Starts == nextId' # nextId

\* the messages of the failures of extractLastFrame
ExtractionMessages ==
    {DimensionMessage, CanvasMessage, SeekMessage, EncodeMessage,
     TypeErrorMessage, UnknownMessage}

\* C2: at most one extraction is in flight in every reachable state.
C2_AtMostOneInFlight == Cardinality(InFlightIds) <= 1

\* C3: after the held file was replaced, the image of the old file is never
\* held: once all extractions have settled, a held image was produced from the
\* file that is held, the most recently supplied one.
C3_ImageOfLatestFile ==
    (InFlightIds = {} /\ imageUrl # None /\ videoFile # None)
        => Val(imageUrl).blob.from = Val(videoFile)

\* C4: at most one output image object URL is created and not yet revoked.
C4_OneLiveImage == Cardinality(LiveImages) <= 1

\* C5: over consecutive supplies of one identity, with the held file never
\* cleared in between, exactly one extraction is started: supplying the
\* recorded identity again starts none.
C5_DedupOneStart == runLen >= 1 => runStarts = 1

\* the same identity was supplied at least twice in a row, and the extraction
\* of the first supply has settled
C5_Witness ==
    /\ runLen = 2
    /\ runStarts = 1
    /\ videoFile = Some(FileA)
    /\ InFlightIds = {}

\* C6: whenever a call of extractLastFrame has settled, by returning or by
\* throwing, the object URL it created for its input file is revoked: the live
\* input URLs are those of the calls in flight.
C6_InputUrlReleased ==
    \A u \in liveUrls : u.kind = "file" => u.id \in InFlightIds

\* the message of the failure a call can end with from where it stands
FailureMessagesAt(x) ==
    CASE x.at = "seek" -> {SeekMessage}
      [] x.at = "toBlob" -> {EncodeMessage}
      [] OTHER -> IF x.file.videoWidth = 0 \/ x.file.videoHeight = 0
                  THEN {DimensionMessage}
                  ELSE IF x.file.finite THEN {CanvasMessage}
                  ELSE {CanvasMessage, TypeErrorMessage}

\* C7: every failure of an extraction ends that call with its one message held
\* in error and starts no extraction; an extraction starts only in a step of
\* handleFileChange or handleDrop that supplies a file.
C7_FailureIsTerminal ==
    [][/\ \A id \in Ids :
            Fails(id) => /\ \E m \in FailureMessagesAt(inflight[id]) : error' = Some(m)
                         /\ ~Starts
                         /\ DOMAIN inflight' = DOMAIN inflight \ {id}
       /\ Starts => \E f \in Files : \/ handleFileChange(Some(f))
                                     \/ handleDrop(Some(f))]_vars

\* an extraction failed at its seek, its message is held and nothing is in flight
C7_Witness ==
    /\ error = Some(SeekMessage)
    /\ InFlightIds = {}
    /\ videoFile # None
    /\ nextId = 2

\* C8: after the extraction of the held file failed, supplying a file of the
\* same identity again starts a new extraction.  (nextId = 2: the failed
\* extraction is the only one started so far, so it is that of the held file.)
C8_ResupplyAfterFailureStarts ==
    [][\A f \in Files :
          (/\ videoFile = Some(f)
           /\ nextId = 2
           /\ InFlightIds = {}
           /\ error # None /\ Val(error) \in ExtractionMessages
           /\ handleFileChange(Some(f)) \/ handleDrop(Some(f)))
          => Starts]_vars

\* C9: isProcessing is true after every start of an extraction and false after
\* every settlement, by success or by failure; so it is false whenever nothing
\* is in flight.
C9_ProcessingReset ==
    /\ [](InFlightIds = {} => ~isProcessing)
    /\ [][/\ Starts => isProcessing'
          /\ (\E id \in Ids : Settles(id)) => ~isProcessing']_vars

\* an extraction failed, another succeeded, nothing is in flight and the flag
\* is false
C9_Witness ==
    /\ nextId = 3
    /\ InFlightIds = {}
    /\ error # None
    /\ imageUrl # None
    /\ ~isProcessing

\* C10: a drop that carries no file, or a file of a type that is not accepted,
\* sets the error and changes nothing else: the held file, the held image and
\* the dedup key stay and no extraction starts.
C10_RejectedDropChangesNothing ==
    [][\A fo \in Supplied :
          ((fo = None \/ ~AcceptedType(Val(fo).type)) /\ handleDrop(fo))
          => /\ error' = Some(DropMessage)
             /\ UNCHANGED <<videoFile, imageUrl, lastProcessedKey, inflight, nextId>>]_vars

\* C11: a click of clear while an image is held revokes the object URL of that
\* image and leaves the initial values: no file, no image, no error,
\* isProcessing false and no dedup key.
C11_ClearResets ==
    [][(imageUrl # None /\ handleClear)
        => /\ Val(imageUrl) \notin liveUrls'
           /\ videoFile' = None
           /\ imageUrl' = None
           /\ error' = None
           /\ ~isProcessing'
           /\ lastProcessedKey' = None]_vars

\* clear was clicked while the image of FileA was held, and no file was
\* supplied since
C11_Witness ==
    /\ revokedImage # None
    /\ Val(revokedImage).blob.from = FileA
    /\ videoFile = None
    /\ imageUrl = None

\* the video of f reports a zero width or height / a duration of zero
ZeroDimension(f) == f.videoWidth = 0 \/ f.videoHeight = 0
ZeroDuration(f) == f.finite /\ f.duration = 0

\* the files of which a call has requested a seek, and those of which an
\* image was produced and is held or live
SeekRequestedFor == {inflight[id].file : id \in {i \in InFlightIds : inflight[i].at # "loadedmetadata"}}
ImageProducedFor ==
    {u.blob.from : u \in LiveImages}
        \cup (IF imageUrl # None THEN {Val(imageUrl).blob.from} ELSE {})

\* C12 as stated: the extraction of a file whose video reports a zero duration,
\* or a zero width or height, never requests a seek and never produces an image.
C12_ZeroDurationOrDimensionFails ==
    \A f \in SeekRequestedFor \cup ImageProducedFor :
        ~ZeroDuration(f) /\ ~ZeroDimension(f)

\* C12 as amended: the extraction of a file whose video reports a zero width or
\* height never requests a seek, never produces an image, and settles with the
\* dimension error.
C12_ZeroDimensionFails ==
    /\ [](\A f \in SeekRequestedFor \cup ImageProducedFor : ~ZeroDimension(f))
    /\ [][\A id \in Ids :
             (Settles(id) /\ ZeroDimension(inflight[id].file))
             => error' = Some(DimensionMessage)]_vars

\* the extraction of FileZ, which reports no width, settled with the dimension error
C12_Witness ==
    /\ videoFile = Some(FileZ)
    /\ InFlightIds = {}
    /\ nextId = 2
    /\ error = Some(DimensionMessage)
    /\ imageUrl = None

\* the video of f reports a duration above zero (Infinity included)
PositiveDuration(f) == ~f.finite \/ f.duration > 0

\* the image of call id that C13 expects of file f: as wide and as high as the
\* video, showing the position max(0, duration - epsilon), epsilon being one
\* unit of time
ExpectedImage(id, f) ==
    [kind |-> "blob", id |-> id,
     blob |-> [from |-> f, width |-> f.videoWidth, height |-> f.videoHeight,
               time |-> IF f.duration - 1 > 0 THEN f.duration - 1 ELSE 0]]

\* C13: for a file with a duration above zero and a non-zero width and height,
\* once loadedmetadata and seeked were delivered and toBlob gives a blob, the
\* call succeeds with an image as wide and as high as the video, drawn only
\* after the seek to max(0, duration - epsilon) completed: a call comes to
\* toBlob only from a completed seek to that position.
C13_GoodFileYieldsFrame ==
    [][\A id \in Ids :
          (/\ id \in InFlightIds
           /\ PositiveDuration(inflight[id].file)
           /\ ~ZeroDimension(inflight[id].file))
          => /\ OnToBlob(id, TRUE)
                => /\ Succeeds(id)
                   /\ imageUrl' = Some(ExpectedImage(id, inflight[id].file))
             /\ (id \in DOMAIN inflight' /\ inflight'[id].at = "toBlob"
                    /\ inflight[id].at # "toBlob")
                => /\ OnSeeked(id)
                   /\ inflight[id].at = "seek"
                   /\ inflight[id].target = ExpectedImage(id, inflight[id].file).blob.time
                   /\ inflight[id].width = inflight[id].file.videoWidth
                   /\ inflight[id].height = inflight[id].file.videoHeight]_vars

\* the image of FileA is held: 4 by 2, drawn at position 5 - 1
C13_Witness ==
    /\ videoFile = Some(FileA)
    /\ imageUrl = Some(BlobUrl(1, [from |-> FileA, width |-> 4, height |-> 2,
                                    time |-> 4]))
    /\ InFlightIds = {}

\* C15: when the held file becomes null, by clear or by a change of the file
\* input without a file, the dedup key becomes null and no extraction starts;
\* so the next supply starts an extraction of the supplied file, whatever its
\* identity, that of the file held before included.
C15_NullResetsKey ==
    /\ [](videoFile = None => lastProcessedKey = None)
    /\ [][(handleClear \/ handleFileChange(None))
            => videoFile' = None /\ lastProcessedKey' = None /\ ~Starts]_vars
    /\ [][\A f \in Files :
             (/\ videoFile = None
              /\ \/ handleFileChange(Some(f))
                 \/ AcceptedType(f.type) /\ handleDrop(Some(f)))
             => /\ Starts
                /\ nextId \in DOMAIN inflight'
                /\ inflight'[nextId].file = f]_vars

\* FileA was supplied, the held file became null, FileA was supplied again: two
\* extractions of FileA are in flight
C15_Witness ==
    /\ InFlightIds = {1, 2}
    /\ inflight[1].file = FileA
    /\ inflight[2].file = FileA
    /\ videoFile = Some(FileA)

\* with every awaited milestone delivered, a started extraction of contents
\* the media element can load settles, and isProcessing becomes false
C16_SettlesUnderFairness ==
    \A id \in Ids :
        (id \in InFlightIds /\ AcceptedType(inflight[id].file.type))
            ~> (id \notin InFlightIds /\ ~isProcessing)

\* a call settles only in the delivery of a milestone it awaits
C16_SettlesOnlyByMilestone ==
    [][\A id \in Ids :
          Settles(id) => \/ inflight[id].at = "loadedmetadata" /\ MetadataMilestone(id)
                         \/ inflight[id].at = "seek" /\ OnError(id)
                         \/ inflight[id].at = "toBlob" /\ EncodeMilestone(id)]_vars

\* while loadedmetadata is not delivered to a call, isProcessing is true
C16_BusyWhileMetadataPending ==
    \A id \in InFlightIds : inflight[id].at = "loadedmetadata" => isProcessing

\* C16: an extraction ends by the delivery of its milestones and by nothing
\* else: with every awaited milestone delivered it settles and isProcessing
\* becomes false; as long as loadedmetadata is not delivered it does not settle
\* and isProcessing stays true.
C16_TerminationByMilestones ==
    /\ C16_SettlesUnderFairness
    /\ C16_SettlesOnlyByMilestone
    /\ []C16_BusyWhileMetadataPending

\* C17: whenever an extraction has started and not settled, isProcessing is true.
C17_BusyWhileInFlight == InFlightIds # {} => isProcessing

\* C18: whenever an image is held, a file is held.
C18_NoImageWithoutFile == imageUrl # None => videoFile # None

\* C19: whenever a file is held and every started extraction has settled, an
\* image or an error message is held.
C19_NoDeadState ==
    (videoFile # None /\ InFlightIds = {}) => (imageUrl # None \/ error # None)

\* C20: the error message and the image are never both held.
C20_ErrorXorImage == ~(error # None /\ imageUrl # None)

-----------------------------------------------------------------------------
(***************************************************************************)
(* Asset Router.  An invocation of fetch keeps its state in its parameters *)
(* and its local variable; the module object holds none.  One invocation   *)
(* is followed from its call to its return; the next one starts afresh.    *)
(***************************************************************************)
Methods == {"GET", "POST", "HEAD"}
Origins == {"https://a.example", "https://b.example"}
Paths == {"/app.js", "/missing", "/index.html"}
Queries == {"", "?v=1"}
HeaderSets == {"accept: text/html", "accept: */*"}
Statuses == {200, 304, 404, 500}

Urls == [origin : Origins, path : Paths, query : Queries]
Requests == [method : Methods, url : Urls, headers : HeaderSets]

\* new URL('/index.html', url.origin): the path replaces path and query
IndexUrl(origin) == [origin |-> origin, path |-> "/index.html", query |-> ""]

\* new Request(new URL('/index.html', url.origin).toString(),
\*             { method: 'GET', headers: request.headers })
IndexRequest(req) ==
    [method |-> "GET", url |-> IndexUrl(req.url.origin), headers |-> req.headers]

\* NeedsFallback without the test of the method
NeedsFallbackAnyMethod(resp, req) == resp.status = 404

\* response.status === 404 && request.method === 'GET'
NeedsFallback(resp, req) == resp.status = 404 /\ req.method = "GET"

\* the response the resolver gives to its n-th call, with status st
Response(n, st) == [call |-> n, status |-> st]

\* fetch(request, env) is invoked: env.ASSETS.fetch(request) is called and awaited
fetch(req) ==
    /\ pc \in {"idle", "returned", "rejected"}
    /\ request' = Some(req)
    /\ response' = None
    /\ returned' = None
    /\ calls' = <<[request |-> req, response |-> None]>>
    /\ pc' = "first"
    /\ UNCHANGED extractorVars

\* the first call of env.ASSETS.fetch resolves with a response of status st
OnFirstResponse(st) ==
    /\ pc = "first"
    /\ LET resp == Response(1, st)
           answered == [calls EXCEPT ![1].response = Some(resp)]
       IN  /\ response' = Some(resp)
           /\ IF NeedsFallback(resp, Val(request))
              THEN /\ calls' = Append(answered,
                                      [request |-> IndexRequest(Val(request)),
                                       response |-> None])
                   /\ pc' = "second"
                   /\ UNCHANGED returned
              ELSE /\ calls' = answered
                   /\ returned' = Some(resp)
                   /\ pc' = "returned"
    /\ UNCHANGED <<request, extractorVars>>

\* OnSecondResponse under a while in place of the if: a 404 falls back again
OnSecondResponseAgain(st) ==
    /\ pc = "second"
    /\ response' = Some(Response(Len(calls), st))
    /\ IF NeedsFallback(Response(Len(calls), st), Val(request))
       THEN /\ calls' = Append([calls EXCEPT ![Len(calls)].response =
                                              Some(Response(Len(calls), st))],
                               [request |-> IndexRequest(Val(request)),
                                response |-> None])
            /\ pc' = "second"
            /\ UNCHANGED returned
       ELSE /\ calls' = [calls EXCEPT ![Len(calls)].response =
                                       Some(Response(Len(calls), st))]
            /\ returned' = Some(Response(Len(calls), st))
            /\ pc' = "returned"
    /\ UNCHANGED <<request, extractorVars>>

\* the second call of env.ASSETS.fetch resolves with a response of status st
OnSecondResponse(st) ==
    /\ pc = "second"
    /\ response' = Some(Response(2, st))
    /\ calls' = [calls EXCEPT ![2].response = Some(Response(2, st))]
    /\ returned' = Some(Response(2, st))
    /\ pc' = "returned"
    /\ UNCHANGED <<request, extractorVars>>

\* the awaited call of env.ASSETS.fetch rejects: so does fetch
OnReject ==
    /\ pc \in {"first", "second"}
    /\ pc' = "rejected"
    /\ UNCHANGED <<request, response, calls, returned, extractorVars>>

RouterNext ==
    \/ \E req \in Requests : fetch(req)
    \/ \E st \in Statuses : OnFirstResponse(st)
    \/ \E st \in Statuses : OnSecondResponse(st)
    \/ OnReject

RouterSpec == Init /\ [][RouterNext]_vars

-----------------------------------------------------------------------------
(***************************************************************************)
(* Asset Router: properties                                                *)
(***************************************************************************)

\* C1: the response fetch returns is the resolver's response to the original
\* request, except when that response has status 404 and the method is GET:
\* then it is the resolver's response to GET /index.html on the request's
\* origin with the request's headers.  Nothing else triggers the fallback.
C1_FetchReturns ==
    pc = "returned" =>
        LET req == Val(request)
            first == Val(calls[1].response)
        IN  /\ calls[1].request = req
            /\ IF first.status = 404 /\ req.method = "GET"
               THEN /\ Len(calls) = 2
                    /\ calls[2].request =
                           [method |-> "GET",
                            url |-> [origin |-> req.url.origin,
                                     path |-> "/index.html", query |-> ""],
                            headers |-> req.headers]
                    /\ calls[2].response # None
                    /\ returned = calls[2].response
               ELSE /\ Len(calls) = 1
                    /\ returned = calls[1].response

\* a GET of /missing with a query was answered 404 and the answer to the
\* request for /index.html was returned
C1_Witness ==
    /\ pc = "returned"
    /\ Val(request).method = "GET"
    /\ Val(request).url.path = "/missing"
    /\ Val(request).url.query = "?v=1"
    /\ Val(calls[1].response).status = 404
    /\ Len(calls) = 2
    /\ returned = Some(Response(2, 200))

\* C14: an invocation makes one or two calls of ASSETS.fetch, never more; the
\* second is made only once the first was answered, only for a GET answered
\* 404, and its answer is returned whatever its status; an invocation starts
\* with nothing left of the one before.
C14_OneOrTwoCalls ==
    /\ [](/\ Len(calls) <= 2
          /\ pc # "idle" => Len(calls) >= 1
          /\ pc = "first" => Len(calls) = 1 /\ calls[1].response = None
          /\ Len(calls) = 2
                => /\ calls[1].response # None
                   /\ Val(calls[1].response).status = 404
                   /\ Val(request).method = "GET"
          /\ pc = "second" => Len(calls) = 2 /\ calls[2].response = None
          /\ (Len(calls) = 2 /\ calls[2].response = None)
                => pc \in {"second", "rejected"}
          /\ (pc = "returned" /\ Len(calls) = 2)
                => returned # None /\ returned = calls[2].response)
    /\ [][\A req \in Requests :
             fetch(req) => /\ calls' = <<[request |-> req, response |-> None]>>
                           /\ request' = Some(req)
                           /\ response' = None
                           /\ returned' = None]_vars

\* the request for /index.html was itself answered 404 and that answer was returned
C14_Witness ==
    /\ pc = "returned"
    /\ Len(calls) = 2
    /\ calls[2].request.url.path = "/index.html"
    /\ returned = Some(Response(2, 404))

=============================================================================
